---- MODULE Spec2Model ----
(***************************************************************************)
(* Model of the asynchronous logger alog.ALogger (src/alog/alog.go) and of *)
(* the way the benchmark harness drives it (src/main.go, package thread).  *)
(*                                                                         *)
(* One ALogger instance is modelled: its three channels, the atomic        *)
(* queueLen counter, the bufio.Writer it owns and the io.Writer behind it. *)
(* Every goroutine is a process with a program counter: invocations of     *)
(* Run, calls of Print (blocking instance method, or the package-level     *)
(* wrapper that starts a goroutine per call), the single Finish call and   *)
(* calls of the Fatal/Panic family.                                        *)
(***************************************************************************)
EXTENDS Integers, Sequences, FiniteSets, TLC

\* ---------------------------------------------------------------- bounds
NumProducers == 2   \* worker goroutines submitting records
NumRecords   == 2   \* records each worker submits
NumRuns      == 2   \* invocations of Run
NumFatal     == 1   \* workers that go on to call a Fatal/Panic variant
MaxFaults    == 1   \* sink calls that accept fewer bytes than offered

\* bufferSize handed to bufio.NewWriterSize by New
BufferSize == 2

Producers == 1..NumProducers
Records   == 1..NumRecords
Runs      == 1..NumRuns
Fatals    == 1..NumFatal

\* ---------------------------------------------------------------- bytes
\* The formatted record of call i of producer p: a sequence of distinct
\* bytes.  Odd producers log three-byte records (longer than the buffer),
\* even producers one-byte records.
RecLen(p) == IF p % 2 = 1 THEN 3 ELSE 1

Rec(p, i) == [k \in 1..RecLen(p) |-> 100 * p + 10 * i + k]

\* Tokens of the record a forced-termination call writes.
PrefixFatal == 901
PrefixPanic == 902
Message     == 903
Newline     == 904
Formatted   == 905

Variants == {"Fatal", "Fatalln", "Fatalf", "Panic", "Panicln", "Panicf"}

IsPanic(v) == v \in {"Panic", "Panicln", "Panicf"}

\* The bytes the variant hands to al.write: Sprint("fatal: ", r),
\* Sprint("fatal: ", r, "\n"), and for the f variants Sprintf(format, r)
\* alone.
FatalRec(v) ==
    CASE v = "Fatal"   -> <<PrefixFatal, Message>>
      [] v = "Fatalln" -> <<PrefixFatal, Message, Newline>>
      [] v = "Fatalf"  -> <<Formatted>>
      [] v = "Panic"   -> <<PrefixPanic, Message>>
      [] v = "Panicln" -> <<PrefixPanic, Message, Newline>>
      [] v = "Panicf"  -> <<Formatted>>

\* ---------------------------------------------------------------- helpers
Min(a, b) == IF a < b THEN a ELSE b

Range(s) == {s[k] : k \in 1..Len(s)}

Drop(s, n) == SubSeq(s, n + 1, Len(s))

Take(s, n) == SubSeq(s, 1, n)

VARIABLES
    inactive,   \* len(al.inactive): 1 when the activity token is in the channel
    done,       \* len(al.done)
    queueLen,   \* al.queueLen
    buff,       \* al.buff and the io.Writer behind it
    rpc,        \* position of every invocation of Run
    stow,       \* Run's local variable stow
    cur,        \* the record Run has received and not yet written
    cpc,        \* position of every Print call
    fin,        \* position of the Finish call
    fsink,      \* what the sink returned to the Flush of Finish
    finAfter,   \* Finish was called after every worker had returned
    fpc,        \* position of every forced-termination call
    fvar,       \* the variant of the call that did a final write ("none" before)
    ffault,     \* the sink failed during the call's final write or flush
    exited,     \* os.Exit or an unrecovered panic has ended the process
    recvd,      \* the records the Consumer Loop received, in order
    raced       \* Flush ran while a Consumer Loop could be writing

vars == <<inactive, done, queueLen, buff, rpc, stow, cur, cpc, fin, fsink,
          finAfter, fpc, fvar, ffault, exited, recvd, raced>>


\* ---------------------------------------------------------------- io.Writer
\* Errors a write can report.  "nil" is no error, "short" is
\* io.ErrShortWrite, "other" is any other error of the sink.
SinkErrs == {"nil", "short", "other"}

\* The results (n, err) one call output.Write(p) can have: the sink takes
\* all of p, or (while faults remain) only its first n < len(p) bytes, with
\* no error, with io.ErrShortWrite or with another error.
SinkWrite(st, p) ==
    {[n |-> Len(p), err |-> "nil"]} \cup
    (IF st.faults < MaxFaults
        THEN {[n |-> k, err |-> e] : k \in 0..(Len(p) - 1), e \in SinkErrs}
        ELSE {})

\* The writer after the sink took the first o.n bytes of p.
ApplySink(st, p, o) ==
    [st EXCEPT !.out = @ \o Take(p, o.n),
               !.faults = IF o.n < Len(p) THEN @ + 1 ELSE @]

\* ---------------------------------------------------------------- bufio.Writer
\* b.Available()
Available(st) == BufferSize - Len(st.buf)

\* b.Flush(): a sticky error is returned at once; otherwise the buffered
\* bytes go to the sink in one call, a partial write without error becomes
\* io.ErrShortWrite, and on an error the bytes not taken stay buffered and
\* the error sticks.
BufFlush(st) ==
    IF st.err # "nil" THEN {[st |-> st, err |-> st.err]}
    ELSE IF st.buf = <<>> THEN {[st |-> st, err |-> "nil"]}
    ELSE {LET e  == IF o.n < Len(st.buf) /\ o.err = "nil" THEN "short" ELSE o.err
              s1 == ApplySink(st, st.buf, o)
          IN  IF e # "nil"
                 THEN [st |-> [s1 EXCEPT !.buf = Drop(st.buf, o.n), !.err = e],
                       err |-> e]
                 ELSE [st |-> [s1 EXCEPT !.buf = <<>>], err |-> "nil"]
          : o \in SinkWrite(st, st.buf)}

\* b.Write(p), having already taken nn bytes: while p does not fit and no
\* error is set, an empty buffer passes p to the sink directly and a
\* non-empty one is filled and flushed; then a set error is returned with
\* the count so far, else the rest of p is buffered.  acc records the bytes
\* counted as written.
RECURSIVE BufWrite(_, _, _)
BufWrite(st, p, nn) ==
    IF Len(p) > Available(st) /\ st.err = "nil"
    THEN IF st.buf = <<>>
         THEN UNION {BufWrite([ApplySink(st, p, o) EXCEPT
                                  !.err = o.err, !.acc = @ \o Take(p, o.n)],
                              Drop(p, o.n), nn + o.n)
                     : o \in SinkWrite(st, p)}
         ELSE LET n  == Min(Available(st), Len(p))
                  s1 == [st EXCEPT !.buf = @ \o Take(p, n),
                                   !.acc = @ \o Take(p, n)]
              IN  UNION {BufWrite(f.st, Drop(p, n), nn + n) : f \in BufFlush(s1)}
    ELSE IF st.err # "nil"
         THEN {[st |-> st, nn |-> nn, err |-> st.err]}
         ELSE {[st |-> [st EXCEPT !.buf = @ \o p, !.acc = @ \o p],
                nn |-> nn + Len(p), err |-> "nil"]}

\* al.write(s): calls buff.Write on the unwritten rest of s until all of
\* s is written; on an error it returns the count of the calls before the
\* failing one.
RECURSIVE write(_, _, _)
write(st, s, bytesWritten) ==
    IF bytesWritten < Len(s)
    THEN UNION {IF o.err # "nil"
                   THEN {[st |-> o.st, bw |-> bytesWritten, err |-> o.err]}
                   ELSE write(o.st, s, bytesWritten + o.nn)
                : o \in BufWrite(st, Drop(s, bytesWritten), 0)}
    ELSE {[st |-> st, bw |-> bytesWritten, err |-> "nil"]}

\* ---------------------------------------------------------------- state
\* len(al.records): the channel is made without capacity.
LenRecords == 0

\* Positions of Run inside its loop.
InLoop == {"select", "write", "put"}

\* IsActive()
IsActive == inactive = 0

Calls == Producers \X Records

\* How worker p logs: odd workers call the blocking instance method
\* al.Print, even workers the package-level Print, which starts a goroutine
\* for every call.
Api(p) == IF p % 2 = 1 THEN "method" ELSE "package"

\* The worker has left its loop (and called wg.Done).
WorkerDone(p) ==
    IF Api(p) = "method"
       THEN \A i \in Records : cpc[<<p, i>>] = "ret"
       ELSE \A i \in Records : cpc[<<p, i>>] # "none"

\* New: the channels are made, the token is put into inactive.
Init ==
    /\ inactive = 1
    /\ done = 0
    /\ queueLen = 0
    /\ buff = [buf |-> <<>>, err |-> "nil", out |-> <<>>, faults |-> 0,
               acc |-> <<>>]
    /\ rpc = [r \in Runs |-> "idle"]
    /\ stow = [r \in Runs |-> <<>>]
    /\ cur = [r \in Runs |-> <<>>]
    /\ cpc = [c \in Calls |-> "none"]
    /\ fin = "idle"
    /\ fsink = [n |-> 0, err |-> "nil"]
    /\ finAfter = FALSE
    /\ fpc = [f \in Fatals |-> "idle"]
    /\ fvar = [f \in Fatals |-> "none"]
    /\ ffault = [f \in Fatals |-> FALSE]
    /\ exited = FALSE
    /\ recvd = <<>>
    /\ raced = FALSE

\* ---------------------------------------------------------------- Run
\* Run is invoked (invocations are numbered in the order they are made): it
\* blocks at <-al.inactive.
RunCall(r) ==
    /\ ~exited
    /\ rpc[r] = "idle"
    /\ \A q \in Runs : q < r => rpc[q] # "idle"
    /\ rpc' = [rpc EXCEPT ![r] = "take"]
    /\ UNCHANGED <<inactive, done, queueLen, buff, stow, cur, cpc, fin, fsink,
                   finAfter, fpc, fvar, ffault, exited, recvd, raced>>

\* RunTake with a fault: the loop is entered without waiting for the token.
RunTake_NoToken(r) ==
    /\ ~exited
    /\ rpc[r] = "take"
    /\ inactive' = 0
    /\ rpc' = [rpc EXCEPT ![r] = "select"]
    /\ stow' = [stow EXCEPT ![r] = <<>>]
    /\ UNCHANGED <<done, queueLen, buff, cur, cpc, fin, fsink, finAfter, fpc,
                   fvar, ffault, exited, recvd, raced>>

\* <-al.inactive: the token is taken and the loop entered with an empty stow.
RunTake(r) ==
    /\ ~exited
    /\ rpc[r] = "take"
    /\ inactive = 1
    /\ inactive' = 0
    /\ rpc' = [rpc EXCEPT ![r] = "select"]
    /\ stow' = [stow EXCEPT ![r] = <<>>]
    /\ UNCHANGED <<done, queueLen, buff, cur, cpc, fin, fsink, finAfter, fpc,
                   fvar, ffault, exited, recvd, raced>>

\* Ready with a fault: records is received from before the token is taken.
Ready_BeforeToken(r) == rpc[r] \in {"take", "select"}

\* The invocation is blocked in the select of the loop, ready to receive.
Ready(r) == rpc[r] = "select"

\* case <-al.done
RunDone(r) ==
    /\ ~exited
    /\ Ready(r)
    /\ done = 1
    /\ done' = 0
    /\ rpc' = [rpc EXCEPT ![r] = "put"]
    /\ UNCHANGED <<inactive, queueLen, buff, stow, cur, cpc, fin, fsink,
                   finAfter, fpc, fvar, ffault, exited, recvd, raced>>

\* al.inactive <- struct{}{}; return nil
RunPut(r) ==
    /\ ~exited
    /\ rpc[r] = "put"
    /\ inactive < 1
    /\ inactive' = inactive + 1
    /\ rpc' = [rpc EXCEPT ![r] = "ok"]
    /\ UNCHANGED <<done, queueLen, buff, stow, cur, cpc, fin, fsink, finAfter,
                   fpc, fvar, ffault, exited, recvd, raced>>

\* The rendezvous on al.records: the send of call c and the receive of the
\* loop complete together.
Handoff(c, r) ==
    /\ ~exited
    /\ cpc[c] = "send"
    /\ Ready(r)
    /\ cpc' = [cpc EXCEPT ![c] = "dec"]
    /\ rpc' = [rpc EXCEPT ![r] = "write"]
    /\ cur' = [cur EXCEPT ![r] = Rec(c[1], c[2])]
    /\ recvd' = Append(recvd, c)
    /\ UNCHANGED <<inactive, done, queueLen, buff, stow, fin, fsink, finAfter,
                   fpc, fvar, ffault, exited, raced>>

\* RunWrite with a change: the token is put back before an error is returned.
RunWrite_ReturnsToken(r) ==
    /\ ~exited
    /\ rpc[r] = "write"
    /\ LET s == stow[r] \o cur[r]
       IN  \E o \in write(buff, s, 0) :
             /\ buff' = o.st
             /\ IF o.err = "short"
                   THEN /\ stow' = [stow EXCEPT ![r] = Drop(s, o.bw)]
                        /\ rpc' = [rpc EXCEPT ![r] = "select"]
                        /\ inactive' = inactive
                   ELSE IF o.err # "nil"
                   THEN /\ stow' = stow
                        /\ rpc' = [rpc EXCEPT ![r] = "err"]
                        /\ inactive' = 1
                   ELSE /\ stow' = [stow EXCEPT ![r] = <<>>]
                        /\ rpc' = [rpc EXCEPT ![r] = "select"]
                        /\ inactive' = inactive
    /\ cur' = [cur EXCEPT ![r] = <<>>]
    /\ UNCHANGED <<done, queueLen, cpc, fin, fsink, finAfter, fpc, fvar, ffault,
                   exited, recvd, raced>>

\* r = append(stow, r...); al.write(r).  A short write stows r[bw:], any
\* other error makes Run return it, success empties the stow.
RunWrite(r) ==
    /\ ~exited
    /\ rpc[r] = "write"
    /\ LET s == stow[r] \o cur[r]
       IN  \E o \in write(buff, s, 0) :
             /\ buff' = o.st
             /\ IF o.err = "short"
                   THEN /\ stow' = [stow EXCEPT ![r] = Drop(s, o.bw)]
                        /\ rpc' = [rpc EXCEPT ![r] = "select"]
                   ELSE IF o.err # "nil"
                   THEN /\ stow' = stow
                        /\ rpc' = [rpc EXCEPT ![r] = "err"]
                   ELSE /\ stow' = [stow EXCEPT ![r] = <<>>]
                        /\ rpc' = [rpc EXCEPT ![r] = "select"]
    /\ cur' = [cur EXCEPT ![r] = <<>>]
    /\ UNCHANGED <<inactive, done, queueLen, cpc, fin, fsink, finAfter, fpc,
                   fvar, ffault, exited, recvd, raced>>

\* ---------------------------------------------------------------- Print
\* Worker p makes its next call of Print.  The instance method is called
\* when the previous call has returned; the package-level Print only
\* starts a goroutine, so the next call follows at once.
Submit(p, i) ==
    /\ ~exited
    /\ cpc[<<p, i>>] = "none"
    /\ p \in Fatals => fpc[p] = "idle"
    /\ i > 1 => IF Api(p) = "method" THEN cpc[<<p, i - 1>>] = "ret"
                                  ELSE cpc[<<p, i - 1>>] # "none"
    /\ cpc' = [cpc EXCEPT ![<<p, i>>] = "inc"]
    /\ UNCHANGED <<inactive, done, queueLen, buff, rpc, stow, cur, fin, fsink,
                   finAfter, fpc, fvar, ffault, exited, recvd, raced>>

\* Inc with a fault: the call goes on to the send without counting itself.
Inc_NoCount(c) ==
    /\ ~exited
    /\ cpc[c] = "inc"
    /\ cpc' = [cpc EXCEPT ![c] = "send"]
    /\ UNCHANGED <<inactive, done, queueLen, buff, rpc, stow, cur, fin, fsink,
                   finAfter, fpc, fvar, ffault, exited, recvd, raced>>

\* atomic.AddInt32(&al.queueLen, 1)
Inc(c) ==
    /\ ~exited
    /\ cpc[c] = "inc"
    /\ queueLen' = queueLen + 1
    /\ cpc' = [cpc EXCEPT ![c] = "send"]
    /\ UNCHANGED <<inactive, done, buff, rpc, stow, cur, fin, fsink, finAfter,
                   fpc, fvar, ffault, exited, recvd, raced>>

\* atomic.AddInt32(&al.queueLen, -1); return
Dec(c) ==
    /\ ~exited
    /\ cpc[c] = "dec"
    /\ queueLen' = queueLen - 1
    /\ cpc' = [cpc EXCEPT ![c] = "ret"]
    /\ UNCHANGED <<inactive, done, buff, rpc, stow, cur, fin, fsink, finAfter,
                   fpc, fvar, ffault, exited, recvd, raced>>

\* ---------------------------------------------------------------- Finish
FinishCall ==
    /\ ~exited
    /\ fin = "idle"
    /\ fin' = "poll"
    /\ finAfter' = \A p \in Producers : WorkerDone(p)
    /\ UNCHANGED <<inactive, done, queueLen, buff, rpc, stow, cur, cpc,
                   fsink, fpc, fvar, ffault, exited, recvd, raced>>

\* The polling loop is left when queueLen and len(al.records) are both 0;
\* the sleep that follows orders nothing.
FinishPoll ==
    /\ ~exited
    /\ fin = "poll"
    /\ ~(queueLen # 0 \/ LenRecords # 0)
    /\ fin' = "flush"
    /\ UNCHANGED <<inactive, done, queueLen, buff, rpc, stow, cur, cpc,
                   fsink, finAfter, fpc, fvar, ffault, exited, recvd, raced>>

\* al.buff.Flush(), up to the call of the sink: a sticky error or an empty
\* buffer returns at once, otherwise the buffered bytes are handed to the
\* sink.  Nothing orders it with a write of the loop or of a
\* forced-termination call.
FinishFlush ==
    /\ ~exited
    /\ fin = "flush"
    /\ IF buff.err # "nil" \/ buff.buf = <<>>
          THEN /\ fin' = "ret"
               /\ UNCHANGED <<buff, fsink>>
          ELSE /\ \E o \in SinkWrite(buff, buff.buf) :
                     /\ buff' = ApplySink(buff, buff.buf, o)
                     /\ fsink' = o
               /\ fin' = "flushed"
    /\ raced' = (raced \/ \E r \in Runs : rpc[r] = "write")
    /\ UNCHANGED <<inactive, done, queueLen, rpc, stow, cur, cpc,
                   finAfter, fpc, fvar, ffault, exited, recvd>>

\* The rest of that Flush, with the buffer as it is by now: fewer bytes
\* taken than are buffered counts as io.ErrShortWrite; on an error the bytes
\* not taken stay buffered and the error sticks; otherwise the buffer is
\* emptied.  Then Finish returns.
FinishFlushEnd ==
    /\ ~exited
    /\ fin = "flushed"
    /\ LET e == IF fsink.n < Len(buff.buf) /\ fsink.err = "nil"
                   THEN "short" ELSE fsink.err
       IN  buff' = IF e # "nil"
                      THEN [buff EXCEPT
                              !.buf = Drop(@, Min(fsink.n, Len(@))),
                              !.err = e]
                      ELSE [buff EXCEPT !.buf = <<>>]
    /\ fsink' = [n |-> 0, err |-> "nil"]
    /\ fin' = "ret"
    /\ UNCHANGED <<inactive, done, queueLen, rpc, stow, cur, cpc,
                   finAfter, fpc, fvar, ffault, exited, recvd, raced>>

\* ---------------------------------------------------------------- Fatal, Panic
\* Worker f, not inside a call of the blocking Print, calls a variant (a
\* first time, or again after it recovered from a panic) and reaches
\* al.done <- struct{}{}, which blocks while the slot of done is taken.
FatalSignal(f) ==
    /\ ~exited
    /\ fpc[f] \in {"idle", "raised"}
    /\ Api(f) = "method" => \A i \in Records : cpc[<<f, i>>] \in {"none", "ret"}
    /\ done < 1
    /\ done' = done + 1
    /\ fpc' = [fpc EXCEPT ![f] = "wait"]
    /\ UNCHANGED <<inactive, queueLen, buff, rpc, stow, cur, cpc, fin, fsink,
                   finAfter, fvar, ffault, exited, recvd, raced>>

\* FatalTake with a fault: the call goes on without waiting for the token.
FatalTake_NoToken(f) ==
    /\ ~exited
    /\ fpc[f] = "wait"
    /\ inactive' = 0
    /\ fpc' = [fpc EXCEPT ![f] = "final"]
    /\ UNCHANGED <<done, queueLen, buff, rpc, stow, cur, cpc, fin, fsink,
                   finAfter, fvar, ffault, exited, recvd, raced>>

\* <-al.inactive
FatalTake(f) ==
    /\ ~exited
    /\ fpc[f] = "wait"
    /\ inactive = 1
    /\ inactive' = 0
    /\ fpc' = [fpc EXCEPT ![f] = "final"]
    /\ UNCHANGED <<done, queueLen, buff, rpc, stow, cur, cpc, fin, fsink,
                   finAfter, fvar, ffault, exited, recvd, raced>>

\* FatalFinal with a fault: a recovered panic puts the token back.
FatalFinal_ReturnsToken(f, v) ==
    /\ ~exited
    /\ fpc[f] = "final"
    /\ fvar' = [fvar EXCEPT ![f] = v]
    /\ \E w \in write(buff, FatalRec(v), 0) :
         \E o \in BufFlush(w.st) : buff' = o.st
    /\ ffault' = [ffault EXCEPT ![f] = buff'.faults # buff.faults]
    /\ raced' = (raced \/ \E r \in Runs : rpc[r] = "write")
    /\ \E recovered \in BOOLEAN :
         /\ recovered => IsPanic(v)
         /\ exited' = ~recovered
         /\ inactive' = IF recovered THEN 1 ELSE inactive
         /\ fpc' = [fpc EXCEPT ![f] = IF recovered THEN "raised" ELSE "exit"]
    /\ UNCHANGED <<done, queueLen, rpc, stow, cur, cpc, fin, fsink,
                   finAfter, recvd>>

\* al.write(record); al.buff.Flush(); os.Exit(1) or panic(s).  Both errors
\* are dropped.  Which variant v the call is shows here for the first time:
\* in the record it writes, and in how it ends (a panic either ends the
\* process or is recovered by the caller).
FatalFinal(f, v) ==
    /\ ~exited
    /\ fpc[f] = "final"
    /\ fvar' = [fvar EXCEPT ![f] = v]
    /\ \E w \in write(buff, FatalRec(v), 0) :
         \E o \in BufFlush(w.st) : buff' = o.st
    /\ ffault' = [ffault EXCEPT ![f] = buff'.faults # buff.faults]
    /\ raced' = (raced \/ \E r \in Runs : rpc[r] = "write")
    /\ \E recovered \in BOOLEAN :
         /\ recovered => IsPanic(v)
         /\ exited' = ~recovered
         /\ fpc' = [fpc EXCEPT ![f] = IF recovered THEN "raised" ELSE "exit"]
    /\ UNCHANGED <<inactive, done, queueLen, rpc, stow, cur, cpc, fin, fsink,
                   finAfter, recvd>>

\* ---------------------------------------------------------------- system
Next ==
    \/ \E r \in Runs : RunCall(r)
    \/ \E r \in Runs : RunTake(r)
    \/ \E r \in Runs : RunDone(r)
    \/ \E r \in Runs : RunPut(r)
    \/ \E c \in Calls, r \in Runs : Handoff(c, r)
    \/ \E r \in Runs : RunWrite(r)
    \/ \E p \in Producers, i \in Records : Submit(p, i)
    \/ \E c \in Calls : Inc(c)
    \/ \E c \in Calls : Dec(c)
    \/ FinishCall
    \/ FinishPoll
    \/ FinishFlush
    \/ FinishFlushEnd
    \/ \E f \in Fatals : FatalSignal(f)
    \/ \E f \in Fatals : FatalTake(f)
    \/ \E f \in Fatals, v \in Variants : FatalFinal(f, v)

Spec == Init /\ [][Next]_vars

\* ---------------------------------------------------------------- properties
\* The bytes of the records in s, in order.
RECURSIVE Bytes(_)
Bytes(s) == IF s = <<>> THEN <<>>
            ELSE Rec(Head(s)[1], Head(s)[2]) \o Bytes(Tail(s))

\* The first place of byte b in s (0 when it is not there).
Pos(s, b) == IF b \in Range(s)
                THEN CHOOSE k \in 1..Len(s) :
                       s[k] = b /\ \A j \in 1..(k - 1) : s[j] # b
                ELSE 0

\* How often byte b is in s.
Count(s, b) == Cardinality({k \in 1..Len(s) : s[k] = b})

\* Record c was received by a Consumer Loop and al.write has run on it.
Written(c) ==
    /\ c \in Range(recvd)
    /\ \A r \in Runs : ~(rpc[r] = "write" /\ cur[r] = Rec(c[1], c[2]))

\* C1: at most one invocation of Run is inside the loop, and while one is
\* there the activity token is out of the channel, so that another Run stays
\* blocked at its take.
C1_SingleActiveConsumer ==
    /\ Cardinality({r \in Runs : rpc[r] \in InLoop}) <= 1
    /\ (\E r \in Runs : rpc[r] \in InLoop) => inactive = 0

\* A loop is running while a second Run waits for the token.
C1_Witness ==
    \E r, q \in Runs : rpc[r] \in {"select", "write"} /\ rpc[q] = "take"

\* C2: when Finish, called after every worker had returned, has returned and
\* the sink never failed, every record logged through the instance method is
\* in the sink exactly once, nothing is left in the Buffered Writer and no
\* received record is still to be written.
C2_NoLossAfterDrain ==
    (fin = "ret" /\ finAfter /\ buff.faults = 0) =>
        /\ \A c \in Calls :
             Api(c[1]) = "method" =>
                \A k \in 1..RecLen(c[1]) :
                   Count(buff.out, Rec(c[1], c[2])[k]) = 1
        /\ buff.buf = <<>>
        /\ \A r \in Runs : rpc[r] # "write"

\* C3: Finish, called after every worker had returned, does not return
\* while a record submitted through the package-level Print has not been
\* handed to and written by the Consumer Loop.
C3_FinishWaitsForSubmitted ==
    (fin = "ret" /\ finAfter) =>
        \A c \in Calls :
           (Api(c[1]) = "package" /\ cpc[c] # "none") => Written(c)

\* C4: of two records a worker submits one after the other, the bytes of
\* the first reach the Buffered Writer before the bytes of the second.
C4_OrderPerProducer ==
    \A p \in Producers : \A i, j \in Records :
       (i < j /\ Rec(p, j)[1] \in Range(buff.acc)) =>
          /\ Rec(p, i)[RecLen(p)] \in Range(buff.acc)
          /\ Pos(buff.acc, Rec(p, i)[RecLen(p)]) < Pos(buff.acc, Rec(p, j)[1])

\* C5: when a worker that logged through the instance method has ended in
\* a forced-termination call, whose final write and flush the sink did not
\* fail, the sink holds every byte of the records it had logged and ends
\* with the forced-termination record.
C5_FatalFlushesPrior ==
    \A f \in Fatals :
       (fpc[f] \in {"exit", "raised"} /\ Api(f) = "method" /\ ~ffault[f]
           /\ buff.err # "other") =>
          LET F == FatalRec(fvar[f])
              n == Len(buff.out)
          IN  /\ \A i \in Records :
                   cpc[<<f, i>>] = "ret" =>
                      \A k \in 1..RecLen(f) : Rec(f, i)[k] \in Range(buff.out)
              /\ n >= Len(F)
              /\ SubSeq(buff.out, n - Len(F) + 1, n) = F

\* C6: a forced-termination call that waits for the token can still get
\* it: the token is in the channel, or a loop is about to put it back, or a
\* loop is running with the termination signal still to be received.
C6_FatalNeverStuck ==
    \A f \in Fatals :
       fpc[f] = "wait" =>
          \/ inactive = 1
          \/ \E r \in Runs : rpc[r] = "put"
          \/ done = 1 /\ \E r \in Runs : rpc[r] \in {"select", "write"}

\* C7: between two iterations of the loop, the bytes the Buffered Writer
\* has accepted followed by the stowed remainder are the bytes of the
\* received records: none dropped, none twice.
C7_ShortWriteReconstruction ==
    \A r \in Runs :
       rpc[r] = "select" => buff.acc \o stow[r] = Bytes(recvd)

C10_RestartAfterError ==
    \A r \in Runs :
       (/\ rpc[r] = "take"
        /\ \E q \in Runs : rpc[q] = "err"
        /\ \A q \in Runs : rpc[q] \notin InLoop
        /\ \A f \in Fatals : fpc[f] \notin {"final", "exit", "raised"})
       => inactive = 1

\* C11: IsActive() is true exactly when an invocation of Run is inside the
\* loop.
C11_IsActiveAccurate ==
    IsActive <=> \E r \in Runs : rpc[r] \in InLoop

\* C12: the record a forced-termination call has written starts with
\* "fatal: " or "panic: " and the message, and ends with a newline for the
\* ln and f variants.
C12_FatalRecordFormat ==
    \A f \in Fatals :
       fpc[f] \in {"exit", "raised"} =>
          LET v == fvar[f]
              F == FatalRec(v)
          IN  /\ Len(F) >= 2
              /\ F[1] = (IF IsPanic(v) THEN PrefixPanic ELSE PrefixFatal)
              /\ F[2] = Message
              /\ v \in {"Fatalln", "Fatalf", "Panicln", "Panicf"} =>
                    F[Len(F)] = Newline

\* C13: while the Flush of Finish is in progress, neither the Consumer Loop
\* nor a forced-termination call performs its write on the Buffered Writer.
C13_SingleWriter ==
    [][fin = "flushed" =>
          /\ \A r \in Runs : rpc[r] = "write" => rpc'[r] = "write"
          /\ \A f \in Fatals : fpc[f] = "final" => fpc'[f] = "final"]_vars

\* C14: while a forced-termination call is at its final write and flush, no
\* invocation of Run is inside the loop.
C14_FatalExcludesLoop ==
    \A f \in Fatals :
       fpc[f] = "final" => \A r \in Runs : rpc[r] \notin InLoop

\* A forced-termination call is at its final write after a loop ran and
\* exited, while another invocation of Run waits for the token.
C14_Witness ==
    \E f \in Fatals :
       /\ fpc[f] = "final"
       /\ \E r \in Runs : rpc[r] = "ok"
       /\ \E r \in Runs : rpc[r] = "take"

\* C17: queueLen is never negative and equals the number of Print calls that
\* have incremented it and not yet decremented it; it is 0 exactly when
\* there is no such call.
C17_QueueLenCounts ==
    LET between == {c \in Calls : cpc[c] \in {"send", "dec"}}
    IN  /\ queueLen >= 0
        /\ queueLen = Cardinality(between)
        /\ queueLen = 0 <=> between = {}

\* Two calls are counted, one blocked in its send and one past it, after
\* another call has returned.
C17_Witness ==
    /\ queueLen = 2
    /\ \E c \in Calls : cpc[c] = "send"
    /\ \E c \in Calls : cpc[c] = "dec"
    /\ \E c \in Calls : cpc[c] = "ret"

\* s is the beginning of t.
IsPrefix(s, t) == Len(s) <= Len(t) /\ s = Take(t, Len(s))

\* The records received so far, followed by the record of every
\* forced-termination call that has done its final write.
InOrder ==
    LET written == {f \in Fatals : fvar[f] # "none"}
    IN  Bytes(recvd) \o
        (IF written = {} THEN <<>>
                         ELSE FatalRec(fvar[CHOOSE f \in written : TRUE]))

\* C15: the bytes the Buffered Writer has taken, and the bytes that have
\* reached the sink, are the received records in the order of their
\* receipt, each in one piece, followed by the forced-termination record.
C15_ReceiveOrder ==
    /\ IsPrefix(buff.acc, InOrder)
    /\ IsPrefix(buff.out, InOrder)

\* C16: a remainder stowed after a short write is not left unwritten: when
\* Run has left its loop on the termination signal, nothing is stowed.
C16_StowWritten ==
    \A r \in Runs : rpc[r] \in {"put", "ok"} => stow[r] = <<>>

\* C18: Finish goes on to its flush only on reading queueLen = 0, and it does
\* not return while a Print call is blocked in its send.
C18_FinishGating ==
    [][/\ (fin = "poll" /\ fin' = "flush") => queueLen = 0
       /\ (fin # "ret" /\ fin' = "ret") =>
             \A c \in Calls : cpc[c] # "send"]_vars

\* A forced-termination call holds the token or has done its final write.
Taken == \E f \in Fatals : fpc[f] = "final" \/ fvar[f] # "none"

\* C19: once a forced-termination call has taken the token, the token stays
\* out of the channel and no invocation of Run is inside the loop; no call
\* is at a final write after one has been done; and after the final write
\* the Buffered Writer takes no further bytes.
C19_FatalIsFinal ==
    /\ [](Taken => /\ inactive = 0
                   /\ \A r \in Runs : rpc[r] \notin InLoop)
    /\ [](/\ Cardinality({f \in Fatals : fvar[f] # "none"}) <= 1
          /\ \A f \in Fatals :
                fpc[f] = "final" => \A g \in Fatals : fvar[g] = "none")
    /\ [][(\E f \in Fatals : fvar[f] # "none") =>
             buff'.acc = buff.acc]_vars

\* After a recovered panic the caller has called a variant again and waits
\* for the token, an invocation of Run waits for it too, and a Print call
\* is blocked in its send.
C19_Witness ==
    /\ \E f \in Fatals : fpc[f] = "wait" /\ fvar[f] # "none"
    /\ \E r \in Runs : rpc[r] = "take"
    /\ \E c \in Calls : cpc[c] = "send"

====
